---- MODULE Spec2Model ----
(***************************************************************************)
(* A model of toypack: bin/toypack.js (the command) and                    *)
(* bin/lib/Compiler.js (readSource, parse, normalizeModuleName,            *)
(* normalizePath, buildModule, emitFile, gTemplate, run, and the runtime   *)
(* loader that emitFile writes into the bundle).                           *)
(*                                                                         *)
(* Strings the program computes with (paths, module names, module ids)     *)
(* are sequences of one-character strings, so that the path functions of   *)
(* Node's "path" module (POSIX flavour) are computed character by          *)
(* character and segment by segment, as Node computes them.                *)
(***************************************************************************)
EXTENDS Integers, Sequences, FiniteSets, TLC

\* ------------------------------------------------------------------------
\* Bounds of the model.
\* ------------------------------------------------------------------------
\* Most require(...) calls in the source of the entry module.
MaxReq == 2
\* Frames of buildModule the JavaScript stack holds before a RangeError.
MaxDepth == 6
\* Most plugins in config.plugins.
MaxPlugins == 2
\* Most call expressions in a source handed to parse() on its own.
MaxCalls == 2
\* Most rules in config.module.rules, and most loaders in a rule's use.
MaxRules == 2
MaxUse == 2
\* Most loader calls in the body of a factory of a hand-made modules table.
MaxBody == 2

\* ------------------------------------------------------------------------
\* Characters and sequences.
\* ------------------------------------------------------------------------
Sep == "/"
Dot == "."
BackSlash == "\\"

\* All sequences over S of length at most n.
BoundedSeq(S, n) == UNION {[1..k -> S] : k \in 0..n}

Last(s) == s[Len(s)]
Front(s) == SubSeq(s, 1, Len(s) - 1)

\* The largest index of character c in s, 0 when c does not occur.
LastIndexOf(s, c) ==
    LET hits == {i \in 1..Len(s) : s[i] = c}
    IN  IF hits = {} THEN 0 ELSE CHOOSE i \in hits : \A j \in hits : j <= i

\* The segments of p between "/" characters (empty segments included).
RECURSIVE SplitFrom(_, _, _)
SplitFrom(p, i, cur) ==
    IF i > Len(p) THEN <<cur>>
    ELSE IF p[i] = Sep THEN <<cur>> \o SplitFrom(p, i + 1, <<>>)
    ELSE SplitFrom(p, i + 1, Append(cur, p[i]))

Split(p) == SplitFrom(p, 1, <<>>)

\* The segments joined with "/".
RECURSIVE JoinSegs(_)
JoinSegs(segs) ==
    IF segs = <<>> THEN <<>>
    ELSE IF Len(segs) = 1 THEN segs[1]
    ELSE segs[1] \o <<Sep>> \o JoinSegs(Tail(segs))

\* ------------------------------------------------------------------------
\* Node's path module (POSIX): normalize, join, resolve, relative, dirname,
\* extname, as Compiler.js calls them.
\* ------------------------------------------------------------------------
\* normalizeString: drops "" and "." segments; ".." removes the segment
\* before it, or is kept when there is none to remove and the path is
\* relative (allowAboveRoot), or is dropped when the path is absolute.
RECURSIVE NormalizeSegs(_, _, _)
NormalizeSegs(segs, res, allowAboveRoot) ==
    IF segs = <<>> THEN res
    ELSE LET s == Head(segs)
             rest == Tail(segs)
         IN  IF s = <<>> \/ s = <<Dot>>
             THEN NormalizeSegs(rest, res, allowAboveRoot)
             ELSE IF s = <<Dot, Dot>>
             THEN IF res # <<>> /\ Last(res) # <<Dot, Dot>>
                  THEN NormalizeSegs(rest, Front(res), allowAboveRoot)
                  ELSE IF allowAboveRoot
                  THEN NormalizeSegs(rest, Append(res, s), allowAboveRoot)
                  ELSE NormalizeSegs(rest, res, allowAboveRoot)
             ELSE NormalizeSegs(rest, Append(res, s), allowAboveRoot)

IsAbsolute(p) == Len(p) > 0 /\ p[1] = Sep

\* path.normalize(p)
PathNormalize(p) ==
    IF Len(p) = 0 THEN <<Dot>>
    ELSE LET abs == IsAbsolute(p)
             trailing == Last(p) = Sep
             body == JoinSegs(NormalizeSegs(Split(p), <<>>, ~abs))
         IN  IF body = <<>>
             THEN IF abs THEN <<Sep>>
                  ELSE IF trailing THEN <<Dot, Sep>> ELSE <<Dot>>
             ELSE (IF abs THEN <<Sep>> ELSE <<>>) \o body
                  \o (IF trailing THEN <<Sep>> ELSE <<>>)

\* path.join(a, b): the non-empty arguments joined with "/", normalized.
PathJoin(a, b) ==
    IF a = <<>> /\ b = <<>> THEN <<Dot>>
    ELSE IF a = <<>> THEN PathNormalize(b)
    ELSE IF b = <<>> THEN PathNormalize(a)
    ELSE PathNormalize(a \o <<Sep>> \o b)

\* path.resolve(from, to) for an absolute from: to when it is absolute,
\* from/to otherwise; normalized, without a trailing separator.
PathResolve(from, to) ==
    LET whole == IF IsAbsolute(to) \/ from = <<>> THEN to
                 ELSE IF to = <<>> THEN from
                 ELSE from \o <<Sep>> \o to
    IN  <<Sep>> \o JoinSegs(NormalizeSegs(Split(whole), <<>>, FALSE))

\* The number of leading segments two segment lists share.
RECURSIVE CommonPrefix(_, _)
CommonPrefix(f, t) ==
    IF f = <<>> \/ t = <<>> \/ Head(f) # Head(t) THEN 0
    ELSE 1 + CommonPrefix(Tail(f), Tail(t))

\* path.relative(from, to) for absolute paths: one ".." for every segment
\* of from past the common prefix, then the rest of to.
PathRelative(from, to) ==
    LET f == NormalizeSegs(Split(from), <<>>, FALSE)
        t == NormalizeSegs(Split(to), <<>>, FALSE)
        k == CommonPrefix(f, t)
        ups == [i \in 1..(Len(f) - k) |-> <<Dot, Dot>>]
    IN  JoinSegs(ups \o SubSeq(t, k + 1, Len(t)))

\* path.dirname(p): p up to, and without, the last "/" that is followed by a
\* character other than "/"; "." (or "/") when there is no such "/".
PathDirname(p) ==
    LET nonSep == {i \in 1..Len(p) : p[i] # Sep}
        lastCh == IF nonSep = {} THEN 0
                  ELSE CHOOSE i \in nonSep : \A j \in nonSep : j <= i
        seps == {i \in 2..Len(p) : p[i] = Sep /\ i < lastCh}
        end == IF seps = {} THEN 0
               ELSE CHOOSE i \in seps : \A j \in seps : j <= i
    IN  IF Len(p) = 0 THEN <<Dot>>
        ELSE IF end = 0 THEN (IF IsAbsolute(p) THEN <<Sep>> ELSE <<Dot>>)
        ELSE IF IsAbsolute(p) /\ end = 2 THEN <<Sep, Sep>>
        ELSE SubSeq(p, 1, end - 1)

\* The last segment of p, trailing "/" characters ignored.
BaseName(p) ==
    LET nonSep == {i \in 1..Len(p) : p[i] # Sep}
        lastCh == IF nonSep = {} THEN 0
                  ELSE CHOOSE i \in nonSep : \A j \in nonSep : j <= i
        cut == SubSeq(p, 1, lastCh)
    IN  SubSeq(cut, LastIndexOf(cut, Sep) + 1, Len(cut))

\* path.extname(p): from the last "." of the last segment to its end; empty
\* when there is no ".", when the "." starts the segment, and for "..".
PathExtname(p) ==
    LET base == BaseName(p)
        dot == LastIndexOf(base, Dot)
    IN  IF dot = 0 \/ dot = 1 \/ base = <<Dot, Dot>> THEN <<>>
        ELSE SubSeq(base, dot, Len(base))

\* ------------------------------------------------------------------------
\* Compiler.js: normalizePath, normalizeModuleName, parse, readSource.
\* ------------------------------------------------------------------------
\* The ".js" that normalizeModuleName appends.
DefaultExt == <<Dot, "j", "s">>

\* The name parse() gives the callee of a rewritten call.
LoaderName == "__webpack_require__"

\* The value of node.arguments[0].value when the argument is no string
\* literal (or is missing): path.extname then throws a TypeError.
NonLiteral == <<"non-literal">>

\* What a path of the file system holds: a file with its text, or no file
\* (fs.readFileSync then throws ENOENT).
FileWith(text) == [exists |-> TRUE, text |-> text]
Missing == [exists |-> FALSE, text |-> <<>>]

\* this.entryId before buildModule assigns it.
Undefined == <<"undefined">>

\* path.replace(/\\/g, "/")
ReplaceBackslashes(p) == [i \in 1..Len(p) |-> IF p[i] = BackSlash THEN Sep ELSE p[i]]

\* normalizePath(path)
normalizePath(p) == <<Dot, Sep>> \o ReplaceBackslashes(p)

\* Variant of normalizeModuleName that never appends the extension.
normalizeModuleName_noExt(moduleName, pPath) == normalizePath(PathJoin(pPath, moduleName))

\* normalizeModuleName(moduleName, pPath)
normalizeModuleName(moduleName, pPath) ==
    LET name == moduleName \o (IF PathExtname(moduleName) # <<>> THEN <<>> ELSE DefaultExt)
    IN  normalizePath(PathJoin(pPath, name))

\* A source text is the sequence of its call expressions, in the order
\* traverse() visits them: the callee ("require" or any other callee) and
\* the first argument (a string literal, or NonLiteral).
CallNode(callee, arg) == [callee |-> callee, arg |-> arg]

IsRequire(node) == node.callee = "require"

\* parse(source, parentPath): every require call is renamed and given its
\* normalized module name as only argument, and that name is pushed onto
\* dependencies; a require call without a string literal throws.
parse(source, parentPath) ==
    LET bad == \E i \in 1..Len(source) : IsRequire(source[i]) /\ source[i].arg = NonLiteral
        rewritten(node) == CallNode(LoaderName, normalizeModuleName(node.arg, parentPath))
        calls == SelectSeq(source, IsRequire)
    IN  IF bad
        THEN [threw |-> TRUE, sourceCode |-> <<>>, dependencies |-> <<>>]
        ELSE [threw |-> FALSE,
              sourceCode |-> [i \in 1..Len(source) |->
                                IF IsRequire(source[i]) THEN rewritten(source[i]) ELSE source[i]],
              dependencies |-> [i \in 1..Len(calls) |-> rewritten(calls[i]).arg]]

\* config.module: absent, present without rules, or present with rules.
NoModule == [kind |-> "absent", rules |-> <<>>]
NoRules == [kind |-> "no-rules", rules |-> <<>>]
WithRules(rules) == [kind |-> "rules", rules |-> rules]

\* A loader function: the content with the loader's mark appended.
ApplyLoader(l, content) == Append(content, l)

\* A rule's test: the extension its pattern matches at the end of the path.
RuleMatches(rule, path) == PathExtname(path) = rule.test

\* loader(): use[len--] is loaded and applied, again while len >= 0.  In
\* JavaScript indices run from 0, so use[len] is here use[len + 1]; with an
\* empty use the first load is require(undefined), which throws.
RECURSIVE RunLoaders(_, _, _)
RunLoaders(use, len, content) ==
    IF len < 0 THEN [threw |-> TRUE, content |-> content]
    ELSE LET c == ApplyLoader(use[len + 1], content)
         IN  IF len - 1 >= 0 THEN RunLoaders(use, len - 1, c)
             ELSE [threw |-> FALSE, content |-> c]

\* The for loop of readSource over rules[i], i = 0 .. rulesLen - 1.
RECURSIVE RunRules(_, _, _, _)
RunRules(rules, i, path, content) ==
    IF i > Len(rules) THEN [threw |-> FALSE, content |-> content]
    ELSE IF RuleMatches(rules[i], path)
    THEN LET r == RunLoaders(rules[i].use, Len(rules[i].use) - 1, content)
         IN  IF r.threw THEN r ELSE RunRules(rules, i + 1, path, r.content)
    ELSE RunRules(rules, i + 1, path, content)

\* readSource(path), given what the file system holds at path.
readSource(module, path, raw) ==
    IF ~raw.exists THEN [threw |-> TRUE, content |-> <<>>]
    ELSE IF module.kind = "absent" THEN [threw |-> FALSE, content |-> raw.text]
    ELSE IF module.kind = "no-rules" THEN [threw |-> TRUE, content |-> raw.text]
    ELSE RunRules(module.rules, 1, path, raw.text)

\* ------------------------------------------------------------------------
\* The project the command runs in.
\* ------------------------------------------------------------------------
\* process.cwd(), which the constructor stores in this.root.
Root == <<Sep, "r">>

\* config.entry
ConfigEntry == <<Dot, Sep, "a", Dot, "j", "s">>

\* The file n.js of the root directory, and the ways a source names it.
FileOf(n) == Root \o <<Sep, n>> \o DefaultExt
Rel(n) == <<Dot, Sep, n>>
ViaParent(n) == <<Dot, Dot, Sep, "r", Sep, n>>

EntryFile == FileOf("a")
DepFiles == {FileOf("b"), FileOf("c"), FileOf("d")}
Files == {EntryFile} \cup DepFiles

\* The module names the sources of the project require.
Names == {Rel("b"), Rel("c"), Rel("d"), ViaParent("d")}

RequireOf(name) == CallNode("require", name)

\* The sources the entry file may hold, and those a dependency may hold: the
\* latter at most one require call, possibly one without a string literal.
EntrySources ==
    {FileWith(t) : t \in BoundedSeq({RequireOf(n) : n \in Names}, MaxReq)}
DepSources ==
    {FileWith(t) : t \in BoundedSeq({RequireOf(n) : n \in Names \cup {NonLiteral}}, 1)}

\* config.plugins: an array of plugins, or something that is no array.
PluginArray(list) == [isArray |-> TRUE, list |-> list]
NotArray == [isArray |-> FALSE, list |-> <<>>]

\* What a plugin's apply(compiler) does: taps hooks.entry, nothing, or throws.
PluginKinds == {"tap", "noop", "throw"}

\* ------------------------------------------------------------------------
\* State.
\* ------------------------------------------------------------------------
VARIABLES
    pc,          \* where the command (or the evaluation of the bundle) is
    plugins,     \* config.plugins
    cfgModule,   \* config.module
    disk,        \* the source files: path -> source text, or Missing
    outDir,      \* config.output.path on disk
    outDir0,     \* config.output.path on disk when the command started
    entryId,     \* this.entryId
    modules,     \* this.modules, in insertion order: <<[key, code], ...>>
    assets,      \* this.assets[main]: the generated bundle
    stack,       \* the active calls of buildModule, innermost last
    taps,        \* the subscribers of hooks.entry
    log,         \* the calls made so far: apply, tap, hook, build, emit
    entryWrites, \* how often this.entryId was assigned
    builds,      \* the bodies of buildModule run so far: <<[path, id, deps], ...>>
    installedModules, \* the bundle's installedModules
    rstack,      \* the active factories of the bundle, innermost last
    executed,    \* the ids whose factory was invoked, in order
    result,      \* what evaluating the bundle returned
    error,       \* the error that ended the command or the evaluation
    input,       \* the arguments of a function applied on its own
    output       \* and what it returned

vars == <<pc, plugins, cfgModule, disk, outDir, outDir0, entryId, modules, assets,
          stack, taps, log, entryWrites, builds, installedModules, rstack,
          executed, result, error, input, output>>

cliVars == <<plugins, cfgModule, disk, outDir0>>
buildVars == <<entryId, modules, stack, entryWrites, builds>>
runtimeVars == <<installedModules, rstack, executed, result>>
pureVars == <<input, output>>

\* The state new Compiler(config) starts from, before its constructor runs.
Fresh ==
    /\ entryId = Undefined
    /\ modules = <<>>
    /\ stack = <<>>
    /\ taps = <<>>
    /\ log = <<>>
    /\ entryWrites = 0
    /\ builds = <<>>
    /\ installedModules = <<>>
    /\ rstack = <<>>
    /\ executed = <<>>
    /\ result = <<>>
    /\ error = "none"
    /\ input = <<>>
    /\ output = <<>>

\* ------------------------------------------------------------------------
\* bin/toypack.js and the constructor.
\* ------------------------------------------------------------------------
\* The plugins applied before the first that throws.
RECURSIVE Applied(_)
Applied(ps) ==
    IF ps = <<>> \/ Head(ps) = "throw" THEN <<>>
    ELSE <<Head(ps)>> \o Applied(Tail(ps))

\* Variant of PluginsToApply that leaves out the first plugin.
PluginsToApply_dropFirst(config) ==
    IF config.isArray /\ config.list # <<>> THEN Tail(config.list) ELSE <<>>

\* The plugins the constructor applies: those of config.plugins when it is an
\* array.
PluginsToApply(config) == IF config.isArray THEN config.list ELSE <<>>

\* new Compiler(config): plugins.forEach(plugin => plugin.apply(this)).
Construct ==
    /\ pc = "start"
    /\ LET ps == PluginsToApply(plugins)
           done == Applied(ps)
       IN  /\ log' = [i \in 1..Len(done) |-> <<"apply", i>>]
                     \o (IF Len(done) < Len(ps) THEN <<<<"apply", Len(done) + 1>>>> ELSE <<>>)
           /\ taps' = SelectSeq([i \in 1..Len(done) |-> IF done[i] = "tap" THEN i ELSE 0],
                                LAMBDA i : i # 0)
           /\ pc' = IF Len(done) < Len(ps) THEN "failed" ELSE "constructed"
           /\ error' = IF Len(done) < Len(ps) THEN "PluginError" ELSE error
    /\ UNCHANGED <<cliVars, outDir, assets, buildVars, runtimeVars, pureVars>>

\* compiler.hooks.entry.call(compiler): every subscriber is called, in the
\* order of registration.
FireHook ==
    /\ pc = "constructed"
    /\ log' = log \o <<<<"hook", 0>>>> \o [i \in 1..Len(taps) |-> <<"tap", taps[i]>>]
    /\ pc' = "hooked"
    /\ UNCHANGED <<cliVars, outDir, assets, buildVars, runtimeVars, pureVars, taps, error>>

\* ------------------------------------------------------------------------
\* buildModule and run.
\* ------------------------------------------------------------------------
\* fs.readFileSync(path, "utf8")
ReadFile(path) == IF path \in DOMAIN disk THEN disk[path] ELSE Missing

Keys(ms) == {ms[i].key : i \in 1..Len(ms)}

\* Variant of SetKey that adds an entry whether or not the key is there.
SetKey_append(ms, k, v) == Append(ms, [key |-> k, code |-> v])

\* this.modules[moduleName] = sourceCode: the value of an existing key is
\* replaced in place, a new key is added after the others.
SetKey(ms, k, v) ==
    IF k \in Keys(ms)
    THEN [i \in 1..Len(ms) |-> IF ms[i].key = k THEN [key |-> k, code |-> v] ELSE ms[i]]
    ELSE Append(ms, [key |-> k, code |-> v])

\* Variant of AssignsEntryId that assigns in every call.
AssignsEntryId_always(isEntry) == TRUE

\* if (isEntry) this.entryId = moduleName

AssignsEntryId(isEntry) == isEntry

\* Variant of RecurseInto that skips the dependencies this.modules holds.
RecurseInto_unseen(deps, ms) == SelectSeq(deps, LAMBDA d : d \notin Keys(ms))

\* dependencies.forEach(dep => this.buildModule(...)): every dependency is
\* built, whether or not this.modules holds it already.

RecurseInto(deps, ms) == deps

\* A call buildModule(modulePath, isEntry) made with the frames in callers
\* active: the body up to dependencies.forEach.  The call fails when the
\* stack is exhausted, when readSource throws, and when parse throws.
buildModule(modulePath, isEntry, callers) ==
    \E read \in {readSource(cfgModule, modulePath, ReadFile(modulePath))} :
    \E moduleName \in {normalizePath(PathRelative(Root, modulePath))} :
    \E parsed \in {parse(read.content, PathDirname(moduleName))} :
    LET overflow == Len(callers) >= MaxDepth
        threw == overflow \/ read.threw \/ parsed.threw
    IN  /\ pc' = IF threw THEN "failed" ELSE "building"
        /\ error' = IF overflow THEN "RangeError"
                    ELSE IF read.threw THEN "ReadError"
                    ELSE IF parsed.threw THEN "TypeError"
                    ELSE error
        /\ entryId' = IF ~overflow /\ ~read.threw /\ AssignsEntryId(isEntry)
                      THEN moduleName ELSE entryId
        /\ entryWrites' = IF ~overflow /\ ~read.threw /\ AssignsEntryId(isEntry)
                          THEN entryWrites + 1 ELSE entryWrites
        /\ modules' = IF threw THEN modules ELSE SetKey(modules, moduleName, parsed.sourceCode)
        /\ builds' = IF threw THEN builds
                     ELSE Append(builds, [path |-> modulePath, id |-> moduleName,
                                          deps |-> parsed.dependencies])
        /\ stack' = IF threw THEN <<>>
                    ELSE Append(callers, [id |-> moduleName,
                                          deps |-> RecurseInto(parsed.dependencies, modules')])

\* run(), first statement: this.buildModule(path.resolve(this.root, this.entry), true)
Run ==
    /\ pc = "hooked"
    /\ log' = Append(log, <<"build", 0>>)
    /\ buildModule(PathResolve(Root, ConfigEntry), TRUE, <<>>)
    /\ UNCHANGED <<cliVars, outDir, assets, taps, runtimeVars, pureVars>>

\* dependencies.forEach: the next dependency of the innermost call is built.
BuildDep ==
    /\ pc = "building"
    /\ stack # <<>>
    /\ Last(stack).deps # <<>>
    /\ LET top == Last(stack)
           callers == Append(Front(stack), [top EXCEPT !.deps = Tail(top.deps)])
       IN  buildModule(PathJoin(Root, Head(top.deps)), FALSE, callers)
    /\ UNCHANGED <<cliVars, outDir, assets, taps, log, runtimeVars, pureVars>>

\* The innermost call has built all its dependencies and returns; when it is
\* the call run() made, run() goes on to emitFile.
BuildReturn ==
    /\ pc = "building"
    /\ stack # <<>>
    /\ Last(stack).deps = <<>>
    /\ stack' = Front(stack)
    /\ pc' = IF Len(stack) = 1 THEN "emitting" ELSE "building"
    /\ UNCHANGED <<cliVars, outDir, assets, taps, log, entryId, modules, entryWrites,
                   builds, error, runtimeVars, pureVars>>

\* ------------------------------------------------------------------------
\* gTemplate and emitFile.
\* ------------------------------------------------------------------------
\* gTemplate(): one factory for every key of this.modules, in the order of
\* Object.keys; only the factory of the entry names its third parameter.
gTemplate(ms, entry) ==
    [i \in 1..Len(ms) |-> [key |-> ms[i].key,
                           loaderParam |-> ms[i].key = entry,
                           body |-> ms[i].code]]

\* The template emitFile builds: the bootstrap id and the factories.
Template(ms, entry) == [s |-> entry, factories |-> gTemplate(ms, entry)]

\* The file system call of emitFile that throws, if any.
Faults == {"none", "rmSync", "mkdirSync", "writeFileSync"}

\* emitFile(): the output directory is removed when it exists and made
\* anew, and the bundle is written into it.
EmitFile ==
    /\ pc = "emitting"
    /\ \E fault \in Faults :
        /\ fault = "rmSync" => outDir # "absent"
        /\ outDir' = CASE fault = "rmSync" -> outDir
                       [] fault = "mkdirSync" -> "absent"
                       [] fault = "writeFileSync" -> "empty"
                       [] OTHER -> "written"
        /\ assets' = IF fault \in {"none", "writeFileSync"}
                     THEN Template(modules, entryId) ELSE assets
        /\ pc' = IF fault = "none" THEN "done" ELSE "failed"
        /\ error' = IF fault = "none" THEN error ELSE "OutputError"
    /\ log' = Append(log, <<"emit", 0>>)
    /\ UNCHANGED <<cliVars, buildVars, taps, runtimeVars, pureVars>>

\* ------------------------------------------------------------------------
\* The bundle: the loader of the template, evaluated.
\* ------------------------------------------------------------------------
HasFactory(id) == \E i \in 1..Len(assets.factories) : assets.factories[i].key = id

\* modules[moduleId]
FactoryOf(id) ==
    assets.factories[CHOOSE i \in 1..Len(assets.factories) : assets.factories[i].key = id]

\* The exports of a module are what it got from the loader, in order: the
\* ids whose exports a call of the loader returned to it.
Receive(installed, callers, id) ==
    IF callers = <<>> THEN installed
    ELSE [installed EXCEPT ![Last(callers).id].exports = Append(@, id)]

\* Variant of IsInstalled that also asks for module.l.
IsInstalled_loaded(installed, id) == id \in DOMAIN installed /\ installed[id].l

\* if (installedModules[moduleId]): the record is there, loaded or not.

IsInstalled(installed, id) == id \in DOMAIN installed

\* installedModules[moduleId] = { i: moduleId, l: false, exports: {} }
Install(installed, id) ==
    [k \in DOMAIN installed \cup {id} |->
        IF k = id THEN [l |-> FALSE, exports |-> <<>>] ELSE installed[k]]

\* __webpack_require__(moduleId), called with the factories in callers
\* active.  An installed module's exports are returned at once.  Otherwise
\* the record is installed, then modules[moduleId] is looked up (a TypeError
\* when the table has no such key) and called.
__webpack_require__(moduleId, callers) ==
    IF IsInstalled(installedModules, moduleId)
    THEN /\ installedModules' = Receive(installedModules, callers, moduleId)
         /\ rstack' = callers
         /\ pc' = "evaluating"
         /\ UNCHANGED <<executed, error>>
    ELSE LET installed == Install(installedModules, moduleId)
         IN  IF HasFactory(moduleId)
             THEN /\ installedModules' = installed
                  /\ executed' = Append(executed, moduleId)
                  /\ rstack' = Append(callers, [id |-> moduleId,
                                                body |-> FactoryOf(moduleId).body,
                                                loaderParam |-> FactoryOf(moduleId).loaderParam])
                  /\ pc' = "evaluating"
                  /\ UNCHANGED error
             ELSE /\ installedModules' = installed
                  /\ rstack' = <<>>
                  /\ pc' = "threw"
                  /\ error' = "TypeError"
                  /\ UNCHANGED executed

\* The last line of the template: return __webpack_require__(... = entryId),
\* when the bundle file written by emitFile is evaluated.
Bootstrap ==
    /\ pc = "done"
    /\ outDir = "written"
    /\ __webpack_require__(assets.s, <<>>)
    /\ UNCHANGED <<cliVars, outDir, assets, buildVars, taps, log, result, pureVars>>

\* The innermost factory evaluates its next call.  A call of the loader
\* needs the name __webpack_require__ in scope, which only a factory with
\* the third parameter has: otherwise it is a ReferenceError.
FactoryStep ==
    /\ pc = "evaluating"
    /\ rstack # <<>>
    /\ Last(rstack).body # <<>>
    /\ LET top == Last(rstack)
           node == Head(top.body)
           callers == Append(Front(rstack), [top EXCEPT !.body = Tail(top.body)])
       IN  IF node.callee # LoaderName
           THEN /\ rstack' = callers
                /\ UNCHANGED <<pc, installedModules, executed, error>>
           ELSE IF top.loaderParam
           THEN __webpack_require__(node.arg, callers)
           ELSE /\ rstack' = <<>>
                /\ pc' = "threw"
                /\ error' = "ReferenceError"
                /\ UNCHANGED <<installedModules, executed>>
    /\ UNCHANGED <<cliVars, outDir, assets, buildVars, taps, log, result, pureVars>>

\* The innermost factory returns: module.l = true, and module.exports goes to
\* the caller (another factory, or the bootstrap line).
FactoryReturn ==
    /\ pc = "evaluating"
    /\ rstack # <<>>
    /\ Last(rstack).body = <<>>
    /\ LET top == Last(rstack)
           callers == Front(rstack)
       IN  /\ installedModules' =
                Receive([installedModules EXCEPT ![top.id].l = TRUE], callers, top.id)
           /\ rstack' = callers
           /\ pc' = IF callers = <<>> THEN "evaluated" ELSE "evaluating"
           /\ result' = IF callers = <<>> THEN installedModules[top.id].exports ELSE result
    /\ UNCHANGED <<cliVars, outDir, assets, buildVars, taps, log, executed, error, pureVars>>

\* ------------------------------------------------------------------------
\* The command, from start to the evaluated bundle.
\* ------------------------------------------------------------------------
\* The project: what the source files hold.
DiskOf(a, b, c, d) ==
    (FileOf("a") :> a) @@ (FileOf("b") :> b) @@ (FileOf("c") :> c) @@ (FileOf("d") :> d)

Init ==
    /\ pc = "start"
    /\ plugins = PluginArray(<<>>)
    /\ cfgModule = NoModule
    /\ \E a \in EntrySources \cup {Missing} :
       \E b, c, d \in DepSources \cup {Missing} : disk = DiskOf(a, b, c, d)
    /\ outDir0 = "old"
    /\ outDir = outDir0
    /\ assets = Template(<<>>, Undefined)
    /\ Fresh

Next ==
    \/ Construct
    \/ FireHook
    \/ Run
    \/ BuildDep
    \/ BuildReturn
    \/ EmitFile
    \/ Bootstrap
    \/ FactoryStep
    \/ FactoryReturn

Spec == Init /\ [][Next]_vars

\* ------------------------------------------------------------------------
\* The command with plugins, on a project whose dependencies require nothing.
\* ------------------------------------------------------------------------
Leaf == FileWith(<<>>)

InitCli ==
    /\ pc = "start"
    /\ plugins \in {NotArray} \cup {PluginArray(l) : l \in BoundedSeq(PluginKinds, MaxPlugins)}
    /\ cfgModule = NoModule
    /\ \E a \in EntrySources \cup {Missing} : disk = DiskOf(a, Leaf, Leaf, Leaf)
    /\ outDir0 \in {"absent", "old"}
    /\ outDir = outDir0
    /\ assets = Template(<<>>, Undefined)
    /\ Fresh

SpecCli == InitCli /\ [][Next]_vars

\* ------------------------------------------------------------------------
\* The loader of the template on any table of factories.
\* ------------------------------------------------------------------------
IdOf(n) == <<Dot, Sep, n>> \o DefaultExt

LoaderIds == {IdOf("a"), IdOf("b")}

\* The bodies of the factories: calls of the loader and calls of anything else.
LoaderBodies ==
    BoundedSeq({CallNode(LoaderName, id) : id \in LoaderIds} \cup {CallNode("other", NonLiteral)},
               MaxBody)

InitLoader ==
    /\ pc = "done"
    /\ plugins = PluginArray(<<>>)
    /\ cfgModule = NoModule
    /\ disk = DiskOf(Leaf, Leaf, Leaf, Leaf)
    /\ outDir0 = "old"
    /\ outDir = "written"
    /\ \E s \in LoaderIds, pa, pb \in BOOLEAN, ba, bb \in LoaderBodies :
          assets = [s |-> s,
                    factories |-> <<[key |-> IdOf("a"), loaderParam |-> pa, body |-> ba],
                                    [key |-> IdOf("b"), loaderParam |-> pb, body |-> bb]>>]
    /\ Fresh

NextLoader ==
    \/ Bootstrap
    \/ FactoryStep
    \/ FactoryReturn

SpecLoader == InitLoader /\ [][NextLoader]_vars

\* ------------------------------------------------------------------------
\* parse() on its own.
\* ------------------------------------------------------------------------
\* The first arguments of the calls: with and without extension, through
\* the parent directory, with a backslash, with a trailing separator, and
\* no string literal.
ParseNames ==
    { <<Dot, Sep, "b">>,
      <<Dot, Dot, Sep, "b">>,
      <<"b", Dot, "j", "s">>,
      <<Dot, Sep, "s", Sep, "b", Dot, "m">>,
      <<"s", BackSlash, "b">>,
      <<Dot, "b">>,
      <<"b", Dot, "m", Sep>>,
      NonLiteral }

ParseNodes == {CallNode(c, n) : c \in {"require", "other"}, n \in ParseNames}

\* The ids of the modules whose source is parsed.
ParseModuleIds ==
    { <<Dot, Sep, "a", Dot, "j", "s">>,
      <<Dot, Sep, "s", Sep, "a", Dot, "j", "s">>,
      <<Dot, Sep, Dot, Dot, Sep, "a", Dot, "j", "s">> }

InitParse ==
    /\ pc = "parse"
    /\ plugins = PluginArray(<<>>)
    /\ cfgModule = NoModule
    /\ disk = DiskOf(Leaf, Leaf, Leaf, Leaf)
    /\ outDir0 = "old"
    /\ outDir = outDir0
    /\ assets = Template(<<>>, Undefined)
    /\ entryId = Undefined
    /\ modules = <<>>
    /\ stack = <<>>
    /\ taps = <<>>
    /\ log = <<>>
    /\ entryWrites = 0
    /\ builds = <<>>
    /\ installedModules = <<>>
    /\ rstack = <<>>
    /\ executed = <<>>
    /\ result = <<>>
    /\ error = "none"
    /\ \E src \in BoundedSeq(ParseNodes, MaxCalls), id \in ParseModuleIds :
          input = [source |-> src, moduleName |-> id]
    /\ output = [threw |-> FALSE, sourceCode |-> <<>>, dependencies |-> <<>>]

\* this.parse(source, path.dirname(moduleName)), as buildModule calls it.
DoParse ==
    /\ pc = "parse"
    /\ output' = parse(input.source, PathDirname(input.moduleName))
    /\ pc' = "parsed"
    /\ UNCHANGED <<cliVars, outDir, assets, buildVars, taps, log, runtimeVars, error, input>>

NextParse == DoParse

SpecParse == InitParse /\ [][NextParse]_vars

\* ------------------------------------------------------------------------
\* readSource() on its own.
\* ------------------------------------------------------------------------
Loaders == {"L1", "L2"}

Rules == [test : {DefaultExt, <<Dot, "c">>}, use : BoundedSeq(Loaders, MaxUse)]

ModuleSections == {NoModule, NoRules} \cup {WithRules(r) : r \in BoundedSeq(Rules, MaxRules)}

InitRead ==
    /\ pc = "readSource"
    /\ plugins = PluginArray(<<>>)
    /\ cfgModule \in ModuleSections
    /\ disk = DiskOf(FileWith(<<"text">>), Leaf, Leaf, Leaf)
    /\ outDir0 = "old"
    /\ outDir = outDir0
    /\ assets = Template(<<>>, Undefined)
    /\ entryId = Undefined
    /\ modules = <<>>
    /\ stack = <<>>
    /\ taps = <<>>
    /\ log = <<>>
    /\ entryWrites = 0
    /\ builds = <<>>
    /\ installedModules = <<>>
    /\ rstack = <<>>
    /\ executed = <<>>
    /\ result = <<>>
    /\ error = "none"
    /\ input \in {[path |-> EntryFile], [path |-> Root \o <<Sep, "a", Dot, "c">>]}
    /\ output = [threw |-> FALSE, content |-> <<>>]

\* this.readSource(path) of a file that holds the text of the entry file.
DoReadSource ==
    /\ pc = "readSource"
    /\ output' = readSource(cfgModule, input.path, disk[EntryFile])
    /\ pc' = "read"
    /\ UNCHANGED <<cliVars, outDir, assets, buildVars, taps, log, runtimeVars, error, input>>

NextRead == DoReadSource

SpecRead == InitRead /\ [][NextRead]_vars

\* ------------------------------------------------------------------------
\* The dependency graph of the project, as buildModule walks it.
\* ------------------------------------------------------------------------
Range(f) == {f[i] : i \in DOMAIN f}

\* What parse() makes of the text of file f, when f is there.
ParseOfFile(f) ==
    IF f \in DOMAIN disk /\ disk[f].exists
    THEN parse(disk[f].text, PathDirname(normalizePath(PathRelative(Root, f))))
    ELSE [threw |-> TRUE, sourceCode |-> <<>>, dependencies |-> <<>>]

\* The files buildModule(f) recurses into; none when it fails on f.
DepSet(f) ==
    LET deps == ParseOfFile(f).dependencies
    IN  {PathJoin(Root, deps[i]) : i \in 1..Len(deps)}

\* The project as a graph: the files each file requires, and whether
\* buildModule gets through the file.
Graph == [f \in Files |-> [ok |-> ~ParseOfFile(f).threw, deps |-> DepSet(f)]]

\* The files reached in graph G from those of S.
RECURSIVE ReachIn(_, _)
ReachIn(G, S) ==
    LET N == S \cup UNION {G[f].deps : f \in S \cap DOMAIN G}
    IN  IF N = S THEN S ELSE ReachIn(G, N)

\* A file reached from the entry reaches itself.
Cyclic ==
    \E G \in {Graph} :
        \E f \in ReachIn(G, {EntryFile}) \cap DOMAIN G : f \in ReachIn(G, G[f].deps)

\* A requires B and C; B and C each require D; D requires nothing.
Diamond ==
    \E G \in {Graph} :
        /\ G[EntryFile].ok
        /\ Cardinality(G[EntryFile].deps) = 2
        /\ G[EntryFile].deps \subseteq DepFiles
        /\ \E D \in DepFiles \ G[EntryFile].deps :
              /\ G[D].ok /\ G[D].deps = {}
              /\ \A f \in G[EntryFile].deps : G[f].ok /\ G[f].deps = {D}

Count(seq, x) == Cardinality({i \in 1..Len(seq) : seq[i] = x})

\* Every dependency parse() returned during the run is a key of this.modules.
DepsAreKeys ==
    \A i \in 1..Len(builds) : \A j \in 1..Len(builds[i].deps) :
        builds[i].deps[j] \in Keys(modules)

\* ------------------------------------------------------------------------
\* CommonJS, for comparison: require(X) in file f loads the file X names
\* relative to the directory of f (X itself, else X.js), once.
\* ------------------------------------------------------------------------
CjsResolve(f, name) ==
    LET p == PathResolve(PathDirname(f), name)
    IN  IF p \in DOMAIN disk /\ disk[p].exists THEN p ELSE p \o DefaultExt

CjsRequires(f) ==
    IF f \in DOMAIN disk /\ disk[f].exists
    THEN LET calls == SelectSeq(disk[f].text, IsRequire)
         IN  [i \in 1..Len(calls) |-> CjsResolve(f, calls[i].arg)]
    ELSE <<>>

\* The files in the order their execution starts: seen, then what loading
\* the files of todo, one after the other, adds.
RECURSIVE CjsLoad(_, _)
CjsLoad(todo, seen) ==
    IF todo = <<>> THEN seen
    ELSE IF Head(todo) \in Range(seen) THEN CjsLoad(Tail(todo), seen)
    ELSE CjsLoad(Tail(todo), CjsLoad(CjsRequires(Head(todo)), Append(seen, Head(todo))))

\* The file a module id of the bundle stands for.
FileOfId(id) == PathJoin(Root, id)

\* ------------------------------------------------------------------------
\* Properties.
\* ------------------------------------------------------------------------

\* C1: in one evaluation of the bundle no factory is invoked twice: the
\* record of a module is in installedModules while (and after) its factory
\* runs, and a call of the loader with an installed id invokes nothing.
C1_FactoryAtMostOnce ==
    /\ \A i, j \in 1..Len(executed) : executed[i] = executed[j] => i = j
    /\ \A i \in 1..Len(rstack) : rstack[i].id \in DOMAIN installedModules
    /\ \A i \in 1..Len(executed) : executed[i] \in DOMAIN installedModules

\* A factory called from another called the loader with its caller's id
\* and got the exports of the caller, whose factory is still running.
C1_Witness ==
    /\ Len(rstack) = 2
    /\ rstack[1].id # rstack[2].id
    /\ ~installedModules[rstack[1].id].l
    /\ rstack[1].id \in Range(installedModules[rstack[2].id].exports)
    /\ Count(executed, rstack[1].id) = 1

\* C2: when the evaluation of the bundle of a built project ends, it has
\* not thrown, and it has executed the modules CommonJS executes, in the
\* same order, and returns the exports CommonJS gives the entry.  (Stated
\* for the projects whose dependency ids are all keys of this.modules.)
C2_BundleMatchesCommonJS ==
    (pc \in {"evaluated", "threw"} /\ DepsAreKeys) =>
        /\ pc = "evaluated"
        /\ [i \in 1..Len(executed) |-> FileOfId(executed[i])] = CjsLoad(<<EntryFile>>, <<>>)
        /\ [i \in 1..Len(result) |-> FileOfId(result[i])] = CjsRequires(EntryFile)

\* C3: after run() has completed, every dependency id parse() returned is a
\* key of this.modules.
C3_DependenciesAreKeys == pc = "done" => DepsAreKeys

\* The canonical id of the configured entry file ./a.js.
CanonicalEntryId == <<Dot, Sep, "a", Dot, "j", "s">>

\* C4: this.entryId is assigned once in a run, by the call with isEntry, to
\* the canonical id of the entry file; no later call changes it; and it is
\* the id of the bootstrap call of the bundle.
C4_BootstrapIdIsEntryId ==
    /\ entryWrites <= 1
    /\ pc \in {"building", "emitting", "done", "evaluating", "evaluated", "threw"} =>
          entryWrites = 1 /\ entryId = CanonicalEntryId
    /\ pc \in {"done", "evaluating", "evaluated", "threw"} => assets.s = CanonicalEntryId

\* A bundle was written after recursive calls of buildModule.
C4_Witness == pc = "done" /\ Len(builds) >= 3 /\ assets.s = CanonicalEntryId

\* What C5 says the argument X of a require call in module P becomes.
C5_Expected(X, P) ==
    <<Dot, Sep>> \o ReplaceBackslashes(
        PathJoin(PathDirname(P), X \o (IF PathExtname(X) = <<>> THEN DefaultExt ELSE <<>>)))

\* C5: parse() gives every require("X") call the argument
\* "./" + join(dirname(P), X plus ".js" when X has no extension), with
\* forward slashes, and returns these values as dependencies: one for
\* every require call, in order, duplicates included; other calls are left
\* as they are.
C5_ParseRewritesRequires ==
    (/\ pc = "parsed"
     /\ \A i \in 1..Len(input.source) :
           IsRequire(input.source[i]) => input.source[i].arg # NonLiteral) =>
        LET reqs == SelectSeq(input.source, IsRequire)
        IN  /\ ~output.threw
            /\ output.dependencies =
                  [i \in 1..Len(reqs) |-> C5_Expected(reqs[i].arg, input.moduleName)]
            /\ Len(output.sourceCode) = Len(input.source)
            /\ \A i \in 1..Len(input.source) :
                  output.sourceCode[i] =
                     IF IsRequire(input.source[i])
                     THEN CallNode(LoaderName,
                                   C5_Expected(input.source[i].arg, input.moduleName))
                     ELSE input.source[i]
            /\ \A i \in 1..Len(output.dependencies) :
                  /\ SubSeq(output.dependencies[i], 1, 2) = <<Dot, Sep>>
                  /\ BackSlash \notin Range(output.dependencies[i])

\* The same extensionless target required twice from a module in a
\* subdirectory: two equal dependencies.
C5_Witness ==
    /\ pc = "parsed"
    /\ input.moduleName = <<Dot, Sep, "s", Sep, "a", Dot, "j", "s">>
    /\ Len(output.dependencies) = 2
    /\ output.dependencies[1] = output.dependencies[2]
    /\ output.dependencies[1] = <<Dot, Sep, "s", Sep, "b", Dot, "j", "s">>

ModuleIds == {IdOf("a"), IdOf("b"), IdOf("c"), IdOf("d")}

\* C6: the bundle never holds two factories with one key; and the build of
\* a diamond completes, with exactly one factory for each of its four
\* modules.
C6_DiamondOneKey ==
    /\ pc \in {"done", "evaluating", "evaluated", "threw"} =>
          \A i, j \in 1..Len(assets.factories) :
              assets.factories[i].key = assets.factories[j].key => i = j
    /\ (pc = "failed" /\ error # "OutputError") => ~Diamond
    /\ (pc = "done" /\ Diamond) =>
          \A id \in ModuleIds :
              Cardinality({i \in 1..Len(assets.factories) : assets.factories[i].key = id}) = 1

\* The bundle of a diamond is written, its shared module built twice.
C6_Witness ==
    /\ pc = "done"
    /\ Diamond
    /\ \E i, j \in 1..Len(builds) : i # j /\ builds[i].id = builds[j].id
    /\ Len(assets.factories) = 4

\* A file reached from the entry is missing or does not parse.
BrokenFile ==
    \E G \in {Graph} : \E f \in ReachIn(G, {EntryFile}) : f \notin DOMAIN G \/ ~G[f].ok

\* C7: when a cycle is reached from the entry, run() never gets to
\* emitFile: the output directory stays as it was and no bundle is written;
\* and when all the files are there and parse, buildModule recurses until
\* the stack is exhausted.
C7_CycleNeverEmits ==
    /\ (\/ pc \notin {"start", "constructed", "hooked", "building", "failed"}
        \/ outDir # outDir0
        \/ <<"emit", 0>> \in Range(log)) => ~Cyclic
    /\ (pc = "failed" /\ error # "RangeError") => (~Cyclic \/ BrokenFile)

\* A module is built again while its own build is still active, five calls
\* deep.
C7_Witness ==
    /\ Len(stack) >= 5
    /\ \E i, j \in 1..Len(stack) : i < j /\ stack[i].id = stack[j].id
    /\ \E i, j \in 1..Len(builds) : i < j /\ builds[i].path = builds[j].path
    /\ Cyclic

IsPrefix(s, t) == Len(s) <= Len(t) /\ SubSeq(t, 1, Len(s)) = s

\* The calls of a complete run, in order.
C8_Expected ==
    LET n == IF plugins.isArray THEN Len(plugins.list) ELSE 0
        tapped == SelectSeq([i \in 1..n |-> IF plugins.list[i] = "tap" THEN i ELSE 0],
                            LAMBDA i : i # 0)
    IN  [i \in 1..n |-> <<"apply", i>>] \o <<<<"hook", 0>>>>
        \o [i \in 1..Len(tapped) |-> <<"tap", tapped[i]>>]
        \o <<<<"build", 0>>, <<"emit", 0>>>>

C9_AllOrNothing == pc = "failed" => outDir \in {outDir0, "written"}

Reverse(s) == [i \in 1..Len(s) |-> s[Len(s) + 1 - i]]

\* The marks of the loaders C10 says are applied, in order.
RECURSIVE C10_Marks(_, _)
C10_Marks(rules, path) ==
    IF rules = <<>> THEN <<>>
    ELSE (IF PathExtname(path) = Head(rules).test THEN Reverse(Head(rules).use) ELSE <<>>)
         \o C10_Marks(Tail(rules), path)

\* C10: readSource returns the content with the chains of the matching
\* rules applied, rule after rule, each chain from its last loader to its
\* first; and the content itself when there is no module section, no rules
\* in it, or no rule.
C10_ReadSourceAppliesChains ==
    pc = "read" =>
        /\ ~output.threw
        /\ output.content = disk[EntryFile].text \o C10_Marks(cfgModule.rules, input.path)

====
